---- MODULE Spec2Model ----
(***************************************************************************)
(* MindRSTrainer (src/modules/trainer/mind_rs_trainer.py): the training    *)
(* loop of one epoch, the validation trigger, the validation pass with     *)
(* its fast/slow evaluation choice, the per-impression metric table and    *)
(* the weight dump that is merged with the file on disk.                   *)
(***************************************************************************)
EXTENDS Integers, Sequences, FiniteSets, TLC

\* ------------------------------------------------------------------ bounds
MaxLenEpoch == 10
MaxLogStep == 2
MaxEpochs == 2
NumProcs == 2
MaxEvals == 1
MaxImps == 3
MaxBatchSize == 1
MaxSavedWeightNum == 0
MaxCand == 2
MaxHist == 2
MaxOld == 1
MaxSeed == 0
MaxBytes == 4
MaxRuns == 3

\* ----------------------------------------------------------- small helpers
Min(a, b) == IF a < b THEN a ELSE b

\* math.ceil(x / y) for naturals x and y > 0
CeilDiv(x, y) == (x + y - 1) \div y

\* Python slice seq[:n]
Take(seq, n) == SubSeq(seq, 1, Min(n, Len(seq)))

\* --------------------------------------------------------- configuration
\* valid_interval as a fraction <<num, den>>; for these values and every
\* len_epoch of the model the float product len_epoch * valid_interval has
\* the same ceiling as the exact product.
ValidIntervals == {<<1, 4>>, <<1, 2>>, <<3, 5>>, <<1, 1>>}

ValidMethods == {"fast_evaluation", "slow_evaluation"}
TopicVariants == {"base", "variational_topic"}

\* the (epoch - 1) * len_epoch + batch_idx of the training loop
StepNoEpoch(epoch, len_epoch, batch_idx) == batch_idx
StepOf(epoch, len_epoch, batch_idx) == (epoch - 1) * len_epoch + batch_idx

\* (batch_idx + 1) % math.ceil(len_epoch * valid_interval) == 0
ValidDueOnIndex(batch_idx, len_epoch, interval) ==
    batch_idx % CeilDiv(len_epoch * interval[1], interval[2]) = 0
ValidDue(batch_idx, len_epoch, interval) ==
    (batch_idx + 1) % CeilDiv(len_epoch * interval[1], interval[2]) = 0

\* batch_idx % log_step == 0
LogDue(batch_idx, log_step) == batch_idx % log_step = 0

\* ------------------------------------------------- the running train metrics
\* "if self.with_entropy or self.show_entropy"
EntropyOn(c) == c.with_entropy \/ c.show_entropy

\* the keys topic_evaluator.result(...) returns (one stand-in key)
TopicKeys == {"topic_result"}

\* the keys _train_epoch passes to self.train_metrics.update under
\* configuration c: "auc" and "loss" on every batch, "l2_norm" with
\* add_l2norm, the two entropy keys with with_entropy or show_entropy, the
\* keys of the topic diagnostics with log_kl_div
TrainKeys(c) ==
    {"loss", "auc"}
        \cup (IF c.add_l2norm THEN {"l2_norm"} ELSE {})
        \cup (IF EntropyOn(c) THEN {"entropy_origin", "entropy_loss"} ELSE {})
        \cup (IF c.log_kl_div THEN TopicKeys ELSE {})
\* MetricTracker.reset(): totals and counts of the tracker's keys back to zero
TrackerReset(c) ==
    [total |-> [k \in TrainKeys(c) |-> 0], counts |-> [k \in TrainKeys(c) |-> 0]]
\* MetricTracker.update(key, value)
TrackerUpdate(t, key, value) ==
    [total |-> [t.total EXCEPT ![key] = @ + value],
     counts |-> [t.counts EXCEPT ![key] = @ + 1]]
\* MetricTracker.result(): the average of a key is total / counts, kept as the pair
TrackerResult(t) == [k \in DOMAIN t.total |-> <<t.total[k], t.counts[k]>>]

\* the values of a training batch, as small integers: loss.item() at the
\* update of "loss" (after every term was added), group_auc(...),
\* l2_norm.item(), output["entropy"].item() and the topic diagnostic
LossOf(epoch, batch_idx) == 1 + ((epoch + 2 * batch_idx) % 3)
AucOf(epoch, batch_idx) == 50 + ((epoch + batch_idx) % 2)
L2NormOf(epoch, batch_idx) == 7 + ((epoch + batch_idx) % 2)
EntropyOriginOf(epoch, batch_idx) == 1 + ((2 * epoch + batch_idx) % 2)
TopicOf(epoch, batch_idx) == 1 + ((epoch + 3 * batch_idx) % 2)
\* self.alpha; entropy_loss.item() in the "static" entropy_mode
Alpha == 2
EntropyLossOf(epoch, batch_idx) == Alpha * EntropyOriginOf(epoch, batch_idx)

\* ------------------------------------------------------ the validation set
\* The impressions of valid_set are indexed 0 .. n-1; the data of impression
\* idx in data set s is given by the functions below.
PadWidth == MaxCand + 1
HistWidth == MaxHist + 1

\* candidate_length and history_length of an impression
CanLen(s, idx) == 1 + ((idx + s) % MaxCand)
HisLen(s, idx) == 1 + ((idx + 2 * s + 1) % MaxHist)

\* the unpadded labels and the model's scores of the candidates
TrueLabel(s, idx) == [j \in 1..CanLen(s, idx) |-> ((idx * j + s) \div 2) % 2]
TrueScore(s, idx) == [j \in 1..CanLen(s, idx) |-> (idx + j * (s + 2) + 1) % 3]

\* batch_dict["label"][i], out_dict["pred"][i]: padded to the batch width;
\* a padded label is 0 and the score the model gives a padded candidate is 3
BatchLabel(s, idx) ==
    [j \in 1..PadWidth |-> IF j <= CanLen(s, idx) THEN TrueLabel(s, idx)[j] ELSE 0]
BatchPred(s, idx) ==
    [j \in 1..PadWidth |-> IF j <= CanLen(s, idx) THEN TrueScore(s, idx)[j] ELSE 3]
\* batch_dict["candidate_index"][i], batch_dict["history_index"][i]
BatchCandIndex(s, idx) ==
    [j \in 1..PadWidth |-> IF j <= CanLen(s, idx) THEN idx * PadWidth + j ELSE 0]
BatchHistIndex(s, idx) ==
    [j \in 1..HistWidth |-> IF j <= HisLen(s, idx) THEN idx + j + s ELSE 0]

\* out_dict of the model: "pred" and the attention weights
OutNames == {"pred", "candidate_weight", "user_weight"}
\* "weight" in name, "candidate" in name
HasWeight(name) == name \in {"candidate_weight", "user_weight"}
HasCandidate(name) == name \in {"candidate_weight"}
OutWeight(s, idx, name) ==
    IF HasCandidate(name)
    THEN [j \in 1..PadWidth |-> (idx + j) % 2]
    ELSE [j \in 1..HistWidth |-> (idx + j + 1) % 2]

\* DataLoader(imp_set, impression_bs): the number of batches and the
\* impressions of global batch g
NumBatches(n, bs) == CeilDiv(n, bs)
BatchRows(g, n, bs) == [i \in 1..Min(bs, n - g * bs) |-> g * bs + i - 1]

\* accelerator.prepare_data_loader with several replicas (the batch sampler
\* is sharded, even_batches and no drop_last): replica p of np takes the
\* batches p, np + p, 2 np + p, ...; every replica sees the same number of
\* batches, each of bs rows: the last batch of the loader, when short, and
\* the batches missing from the last round are filled with the rows of the
\* first round (the first np batches), taken in order and repeated
LocalBatches(n, bs, np) == CeilDiv(NumBatches(n, bs), np)
GlobalBatch(v, p, n, bs, np) == v * np + p
ShardRows(g, n, bs, np) ==
    LET full == n \div bs
        rem == n % bs
        first == Min(np * bs, n)
    IN [j \in 1..bs |->
           IF g < full THEN g * bs + j - 1
           ELSE LET l == (g - full) * bs + j - 1
                IN IF l < rem THEN full * bs + l ELSE (l - rem) % first]
\* the rows replica p of np gets at loop index v: with one replica the
\* loader is left as it is and the last batch may be short
LoaderRows(v, p, n, bs, np) ==
    IF np = 1 THEN BatchRows(v, n, bs)
    ELSE ShardRows(GlobalBatch(v, p, n, bs, np), n, bs, np)

\* accelerator.is_main_process
IsMainProcess(p) == p = 0

\* ---------------------------------------------------------------- metrics
\* self.metric_funcs: functions (labels, scores) -> number, keyed by __name__
MetricFuncs == {"hit_at_1", "all_ranked"}
ArgMax(scores) ==
    CHOOSE i \in 1..Len(scores) :
        /\ \A j \in 1..Len(scores) : scores[j] <= scores[i]
        /\ \A j \in 1..(i - 1) : scores[j] < scores[i]
\* 1 when the best-scored candidate was clicked
HitAt1(labels, scores) == labels[ArgMax(scores)]
\* 1 when every clicked candidate scores above every candidate not clicked
AllRanked(labels, scores) ==
    IF \A i, j \in 1..Len(labels) :
          (labels[i] = 1 /\ labels[j] = 0) => scores[i] > scores[j]
    THEN 1 ELSE 0
ApplyMetric(m, labels, scores) ==
    IF m = "hit_at_1" THEN HitAt1(labels, scores) ELSE AllRanked(labels, scores)

\* the row of result_dict for row i of a batch: every metric on the first
\* can_len[i] labels and scores, times 100
ResultRowPadded(label, pred, can_len) ==
    [m \in MetricFuncs |-> ApplyMetric(m, label, pred) * 100]
ResultRow(label, pred, can_len) ==
    [m \in MetricFuncs |-> ApplyMetric(m, Take(label, can_len), Take(pred, can_len)) * 100]

\* one pass of "for i in range(len(label))" over the rows of a batch
RECURSIVE StoreRows(_, _, _, _)
StoreRows(rd, rows, s, i) ==
    IF i > Len(rows) THEN rd
    ELSE LET idx == rows[i]
             row == ResultRow(BatchLabel(s, idx), BatchPred(s, idx), CanLen(s, idx))
         IN StoreRows([k \in DOMAIN rd \cup {idx} |-> IF k = idx THEN row ELSE rd[k]],
                      rows, s, i + 1)

\* gather_dict: union of the replicas' result tables by impression index
GatherDict(tables) ==
    LET keys == UNION {DOMAIN tables[p] : p \in DOMAIN tables}
    IN [k \in keys |-> LET p == CHOOSE q \in DOMAIN tables : k \in DOMAIN tables[q]
                       IN tables[p][k]]

RECURSIVE SumOver(_, _, _)
SumOver(rd, keys, m) ==
    IF keys = {} THEN 0
    ELSE LET k == CHOOSE x \in keys : TRUE
         IN rd[k][m] + SumOver(rd, keys \ {k}, m)

\* np.round(DataFrame.mean(), 4): the column mean in units of 0.0001
\* (no tie occurs in the rounding for tables of fewer than 32 rows)
EvalResult(rd) ==
    LET c == Cardinality(DOMAIN rd)
    IN [m \in MetricFuncs |-> (2 * 10000 * SumOver(rd, DOMAIN rd, m) + c) \div (2 * c)]

\* ------------------------------------------------------------ weight dump
\* saved_items of one impression, plus the truncated "weight" outputs
SavedFields == {"impression_index", "results", "label", "candidate_index",
                "history_index", "pred_score"}
WeightFields == SavedFields \cup {name \in OutNames : HasWeight(name)}

CaptureOf(s, idx) ==
    LET cl == CanLen(s, idx)
        hl == HisLen(s, idx)
    IN [f \in WeightFields |->
          CASE f = "impression_index" -> <<idx>>
            [] f = "results" ->
                 <<ResultRow(BatchLabel(s, idx), BatchPred(s, idx), cl)["hit_at_1"],
                   ResultRow(BatchLabel(s, idx), BatchPred(s, idx), cl)["all_ranked"]>>
            [] f = "label" -> Take(BatchLabel(s, idx), cl)
            [] f = "candidate_index" -> Take(BatchCandIndex(s, idx), cl)
            [] f = "history_index" -> Take(BatchHistIndex(s, idx), hl)
            [] f = "pred_score" -> Take(BatchPred(s, idx), cl)
            [] OTHER -> Take(OutWeight(s, idx, f), IF HasCandidate(f) THEN cl ELSE hl)]

\* weight_dict[name].append(...) on a defaultdict(list)
DictAppend(wd, name, x) ==
    [f \in DOMAIN wd \cup {name} |->
        IF f = name THEN (IF name \in DOMAIN wd THEN Append(wd[name], x) ELSE <<x>>)
        ELSE wd[f]]

RECURSIVE AppendFields(_, _, _)
AppendFields(wd, fields, cap) ==
    IF fields = {} THEN wd
    ELSE LET f == CHOOSE x \in fields : TRUE
         IN AppendFields(DictAppend(wd, f, cap[f]), fields \ {f}, cap)

\* the "if return_weight:" part of the row loop, over the rows of a batch
RECURSIVE CaptureRows(_, _, _, _)
CaptureRows(wd, rows, s, i) ==
    IF i > Len(rows) THEN wd
    ELSE CaptureRows(AppendFields(wd, WeightFields, CaptureOf(s, rows[i])), rows, s, i + 1)

\* "if vi >= saved_weight_num and return_weight: break"
BreakDueStrict(v, saved_weight_num, return_weight) == v > saved_weight_num /\ return_weight
BreakDue(v, saved_weight_num, return_weight) == v >= saved_weight_num /\ return_weight

\* for key in weight_dict.keys(): weight_dict[key].extend(old_weights[key])
MergeOldFirst(wd, old) == [f \in DOMAIN wd |-> old[f] \o wd[f]]
MergeWeights(wd, old) == [f \in DOMAIN wd |-> wd[f] \o old[f]]

\* a dump left on disk by an earlier pass over k other impressions
OldDump(s, n, k) ==
    [f \in WeightFields |-> [j \in 1..k |-> CaptureOf(s, n + j - 1)[f]]]

\* -------------------------------------------------- fast evaluation choice
\* the condition of the "if" inside the try block
EligibleIgnoringWeight(cfg) ==
    /\ cfg.valid_method = "fast_evaluation"
    /\ ~cfg.with_entropy
    /\ ~(cfg.topic_variant = "variational_topic")
FastEvalEligible(cfg) ==
    /\ cfg.valid_method = "fast_evaluation"
    /\ ~cfg.return_weight
    /\ ~cfg.with_entropy
    /\ ~(cfg.topic_variant = "variational_topic")

\* Python's "a or b" on two exception classes: a class is truthy, so the
\* value is the first operand
PyOrSecond(a, b) == b
PyOr(a, b) == a
\* "except KeyError or RuntimeError": the handler matches the class the
\* expression evaluates to (neither class is a subclass of the other)
ExceptClause == PyOr("KeyError", "RuntimeError")
Caught(e) == e = ExceptClause

\* what the call of get_news_embeds can do
CacheOutcomes == {"ok", "KeyError", "RuntimeError"}

\* if return_weight and self.accelerator.is_main_process
SaveGuardAnyProcess(cfg, p) == cfg.return_weight
SaveGuard(cfg, p) == cfg.return_weight /\ IsMainProcess(p)

\* ------------------------------------------------------------------ state
VARIABLES
    cfg,            \* the configuration and the data set of the run
    procs,          \* the ranks of the process replicas
    pc,             \* position of each replica
    caller,         \* who called _valid_epoch: "loop", "epoch_end", "evaluate"
    epoch,          \* argument of _train_epoch
    batch_idx,      \* loop variable of the training loop
    step,           \* self.step
    mode,           \* model.training: "train" or "eval"
    fwd_mode,       \* the mode the last training forward pass ran in
    train_metrics,  \* self.train_metrics
    train_log,      \* the train_log of the last log step
    epoch_log,      \* the train part of the log _train_epoch returns
    validations,    \* the calls _validation(epoch, batch_idx, do_monitor)
    val_log,        \* the values logged as val/step
    vi,             \* loop variable of the validation loop
    news_embeds,    \* "unset", "cache" or "None"
    cache_called,   \* get_news_embeds was called in the current pass
    cache_error,    \* what that call raised: "none", "KeyError", "RuntimeError"
    exc,            \* the exception propagating out of the replica, or "none"
    result_dict,    \* impression index -> metric name -> value
    weight_dict,    \* field name -> list of per-impression entries
    old_weights,    \* what torch.load returned in the current pass
    eval_result,    \* the averaged metrics of the last pass
    evals,          \* number of evaluate() calls made
    file,           \* the weight dump <model_dir>/weight/<head_num>.pt
    file_readers,   \* replicas that have read the file
    file_writers,   \* replicas that have written the file
    dl              \* dataset acquisition: the archive on disk and the call in progress

vars == <<cfg, procs, pc, caller, epoch, batch_idx, step, mode, fwd_mode,
          train_metrics, train_log, epoch_log, validations, val_log, vi, news_embeds,
          cache_called, cache_error, exc, result_dict, weight_dict, old_weights,
          eval_result, evals, file, file_readers, file_writers, dl>>

\* the state of the trainer, which dataset acquisition leaves alone
trainerVars == <<cfg, procs, pc, caller, epoch, batch_idx, step, mode, fwd_mode,
                 train_metrics, train_log, epoch_log, validations, val_log, vi, news_embeds,
                 cache_called, cache_error, exc, result_dict, weight_dict, old_weights,
                 eval_result, evals, file, file_readers, file_writers>>

trainVars == <<epoch, batch_idx, step, fwd_mode, train_metrics, train_log, epoch_log>>
passVars == <<vi, news_embeds, cache_called, cache_error, result_dict, weight_dict,
              old_weights, eval_result>>
fileVars == <<file, file_readers, file_writers>>

NoResult == [m \in MetricFuncs |-> 0]
NoDump == [exists |-> FALSE, data |-> << >>]

\* dataset acquisition before any call: no archive on disk (size -1), no
\* expected_bytes (-1 for None), nothing handed to ZipFile (-1)
DlState(size, disk) ==
    [pc |-> "idle", caller |-> "none", expected |-> -1, true_size |-> size,
     disk |-> disk, opened |-> -1, result |-> "none", runs |-> 0]

\* the part of Init common to both specifications
InitState(ps, c, f) ==
    /\ cfg = c
    /\ procs = ps
    /\ pc = [p \in ps |-> "idle"]
    /\ caller = [p \in ps |-> "none"]
    /\ epoch = [p \in ps |-> 0]
    /\ batch_idx = [p \in ps |-> 0]
    /\ step = [p \in ps |-> 0]
    /\ mode = [p \in ps |-> "train"]
    /\ fwd_mode = [p \in ps |-> "none"]
    /\ train_metrics = [p \in ps |-> TrackerReset(c)]
    /\ train_log = [p \in ps |-> TrackerResult(TrackerReset(c))]
    /\ epoch_log = [p \in ps |-> TrackerResult(TrackerReset(c))]
    /\ validations = [p \in ps |-> << >>]
    /\ val_log = [p \in ps |-> << >>]
    /\ vi = [p \in ps |-> 0]
    /\ news_embeds = [p \in ps |-> "unset"]
    /\ cache_called = [p \in ps |-> FALSE]
    /\ cache_error = [p \in ps |-> "none"]
    /\ exc = [p \in ps |-> "none"]
    /\ result_dict = [p \in ps |-> << >>]
    /\ weight_dict = [p \in ps |-> << >>]
    /\ old_weights = [p \in ps |-> NoDump]
    /\ eval_result = [p \in ps |-> NoResult]
    /\ evals = [p \in ps |-> 0]
    /\ file = f
    /\ file_readers = {}
    /\ file_writers = {}

\* the dumps that can be on disk at start: none, or one of 1..MaxOld entries
InitialFiles(s, n) ==
    {NoDump} \cup {[exists |-> TRUE, data |-> OldDump(s, n, k)] : k \in 1..MaxOld}

\* A training run of one replica: every training option, every combination
\* of the options that choose the evaluation strategy, one validation set.
\* The runs with add_l2norm or show_entropy use the default evaluation
\* strategy.
DefaultStrategy(c) ==
    c.valid_method = "fast_evaluation" /\ ~c.return_weight /\ c.topic_variant = "base"

AllTrainConfigs ==
    [len_epoch : 1..MaxLenEpoch,
     valid_interval : ValidIntervals,
     log_step : 1..MaxLogStep,
     log_kl_div : BOOLEAN,
     add_l2norm : BOOLEAN,
     show_entropy : BOOLEAN,
     valid_method : ValidMethods,
     return_weight : BOOLEAN,
     with_entropy : BOOLEAN,
     topic_variant : TopicVariants,
     saved_weight_num : {MaxSavedWeightNum},
     impression_batch_size : {MaxBatchSize},
     num_imps : {MaxImps},
     seed : {0}]

TrainConfigs ==
    {c \in AllTrainConfigs : (c.add_l2norm \/ c.show_entropy) => DefaultStrategy(c)}

Init == \E c \in TrainConfigs : InitState({0}, c, NoDump) /\ dl = DlState(1, -1)

\* evaluate() on every replica: every validation option and data set.
EvalConfigs ==
    [len_epoch : {1},
     valid_interval : {<<3, 5>>},
     log_step : {1},
     log_kl_div : {FALSE},
     add_l2norm : {FALSE},
     show_entropy : {FALSE},
     valid_method : ValidMethods,
     return_weight : BOOLEAN,
     with_entropy : BOOLEAN,
     topic_variant : TopicVariants,
     saved_weight_num : 0..MaxSavedWeightNum,
     impression_batch_size : 1..MaxBatchSize,
     num_imps : 1..MaxImps,
     seed : 0..MaxSeed]

InitEval ==
    \E c \in EvalConfigs : \E f \in InitialFiles(c.seed, c.num_imps) :
        InitState(0..(NumProcs - 1), c, f) /\ dl = DlState(1, -1)

\* ----------------------------------------------------------- training loop
\* _train_epoch(epoch), up to the loop: the epochs are run in increasing order
TrainEpoch(p) ==
    /\ pc[p] = "idle"
    /\ epoch[p] < MaxEpochs
    /\ epoch' = [epoch EXCEPT ![p] = @ + 1]
    /\ mode' = [mode EXCEPT ![p] = "train"]
    /\ train_metrics' = [train_metrics EXCEPT ![p] = TrackerReset(cfg)]
    /\ batch_idx' = [batch_idx EXCEPT ![p] = 0]
    /\ pc' = [pc EXCEPT ![p] = IF cfg.len_epoch > 0 THEN "batch" ELSE "epoch_end"]
    /\ UNCHANGED <<dl, cfg, procs, caller, step, fwd_mode, train_log, epoch_log, validations, val_log,
                   exc, evals>>
    /\ UNCHANGED passVars
    /\ UNCHANGED fileVars

\* self.train_metrics after the updates of one batch, in the order of the
\* code: "auc", "l2_norm", "entropy_origin", "entropy_loss", "loss"
BatchUpdates(t, e, b) ==
    LET t1 == TrackerUpdate(t, "auc", AucOf(e, b))
        t2 == IF cfg.add_l2norm THEN TrackerUpdate(t1, "l2_norm", L2NormOf(e, b)) ELSE t1
        t3 == IF EntropyOn(cfg)
              THEN TrackerUpdate(TrackerUpdate(t2, "entropy_origin", EntropyOriginOf(e, b)),
                                 "entropy_loss", EntropyLossOf(e, b))
              ELSE t2
    IN TrackerUpdate(t3, "loss", LossOf(e, b))

\* "for key, value in topic_results.items(): self.train_metrics.update(key, value)"
RECURSIVE TopicUpdates(_, _, _, _)
TopicUpdates(t, keys, e, b) ==
    IF keys = {} THEN t
    ELSE LET k == CHOOSE x \in keys : TRUE
         IN TopicUpdates(TrackerUpdate(t, k, TopicOf(e, b)), keys \ {k}, e, b)

\* self.train_metrics at the call of result() in the log step of batch b
MetricsAtLogStep(t, e, b) ==
    IF cfg.log_kl_div THEN TopicUpdates(BatchUpdates(t, e, b), TopicKeys, e, b)
    ELSE BatchUpdates(t, e, b)

\* self.train_metrics after the updates and the log step of one batch
MetricsAfterBatch(t, e, b) ==
    IF LogDue(b, cfg.log_step) THEN TrackerReset(cfg) ELSE BatchUpdates(t, e, b)

\* train_log after batch b: the log step sets it to train_metrics.result()
TrainLogAfterBatch(old, t, e, b) ==
    IF LogDue(b, cfg.log_step) THEN TrackerResult(MetricsAtLogStep(t, e, b)) ELSE old

\* where the loop goes after batch b
AfterBatch(b) == IF b + 1 < cfg.len_epoch THEN "batch" ELSE "epoch_end"

\* the mode after the log step of batch b: with log_kl_div the topic
\* diagnostics run under model.eval() and model.train() follows them
ModeAfterLogStepNoTrain(m, b) ==
    IF LogDue(b, cfg.log_step) /\ cfg.log_kl_div THEN "eval" ELSE m
ModeAfterLogStep(m, b) ==
    IF LogDue(b, cfg.log_step) /\ cfg.log_kl_div THEN "train" ELSE m

\* one iteration of the training loop, up to the call of _validation
TrainBatch(p) ==
    /\ pc[p] = "batch"
    /\ step' = [step EXCEPT ![p] = StepOf(epoch[p], cfg.len_epoch, batch_idx[p])]
    /\ fwd_mode' = [fwd_mode EXCEPT ![p] = mode[p]]
    /\ train_metrics' = [train_metrics EXCEPT ![p] =
                            MetricsAfterBatch(@, epoch[p], batch_idx[p])]
    /\ train_log' = [train_log EXCEPT ![p] =
                        TrainLogAfterBatch(@, train_metrics[p], epoch[p], batch_idx[p])]
    /\ mode' = [mode EXCEPT ![p] = ModeAfterLogStep(@, batch_idx[p])]
    /\ IF ValidDue(batch_idx[p], cfg.len_epoch, cfg.valid_interval)
       THEN /\ pc' = [pc EXCEPT ![p] = "validation"]
            /\ caller' = [caller EXCEPT ![p] = "loop"]
            /\ UNCHANGED batch_idx
       ELSE /\ pc' = [pc EXCEPT ![p] = AfterBatch(batch_idx[p])]
            /\ batch_idx' = [batch_idx EXCEPT ![p] = @ + 1]
            /\ UNCHANGED caller
    /\ UNCHANGED <<dl, cfg, procs, epoch, epoch_log, validations, val_log, exc, evals>>
    /\ UNCHANGED passVars
    /\ UNCHANGED fileVars

\* after the loop: log = self.train_metrics.result(), then the call of
\* _validation(epoch, self.len_epoch, False)
TrainEpochEnd(p) ==
    /\ pc[p] = "epoch_end"
    /\ epoch_log' = [epoch_log EXCEPT ![p] = TrackerResult(train_metrics[p])]
    /\ pc' = [pc EXCEPT ![p] = "validation"]
    /\ caller' = [caller EXCEPT ![p] = "epoch_end"]
    /\ UNCHANGED <<dl, cfg, procs, epoch, batch_idx, step, mode, fwd_mode, train_metrics,
                   train_log, validations, val_log, exc, evals>>
    /\ UNCHANGED passVars
    /\ UNCHANGED fileVars

\* -------------------------------------------------------------- validation
\* the arguments of the _validation call made from the loop or the epoch end
ValidationArgs(p) ==
    IF caller[p] = "loop" THEN <<epoch[p], batch_idx[p], TRUE>>
    ELSE <<epoch[p], cfg.len_epoch, FALSE>>

\* _validation(epoch, batch_idx, do_monitor), up to the call of _valid_epoch
Validation(p) ==
    /\ pc[p] = "validation"
    /\ validations' = [validations EXCEPT ![p] = Append(@, ValidationArgs(p))]
    /\ pc' = [pc EXCEPT ![p] = "valid_epoch"]
    /\ UNCHANGED <<dl, cfg, procs, caller, mode, val_log, exc, evals>>
    /\ UNCHANGED trainVars
    /\ UNCHANGED passVars
    /\ UNCHANGED fileVars

\* evaluate(dataset, model), up to the call of _valid_epoch
Evaluate(p) ==
    /\ pc[p] = "idle"
    /\ evals[p] < MaxEvals
    /\ evals' = [evals EXCEPT ![p] = @ + 1]
    /\ mode' = [mode EXCEPT ![p] = "eval"]
    /\ caller' = [caller EXCEPT ![p] = "evaluate"]
    /\ pc' = [pc EXCEPT ![p] = "valid_epoch"]
    /\ UNCHANGED <<dl, cfg, procs, validations, val_log, exc>>
    /\ UNCHANGED trainVars
    /\ UNCHANGED passVars
    /\ UNCHANGED fileVars

\* _valid_epoch from its first line to the creation of the loader: the model
\* goes to eval mode and the try block chooses fast or slow evaluation
ValidEpochSetup(p) ==
    /\ pc[p] = "valid_epoch"
    /\ mode' = [mode EXCEPT ![p] = "eval"]
    /\ result_dict' = [result_dict EXCEPT ![p] = << >>]
    /\ weight_dict' = [weight_dict EXCEPT ![p] = << >>]
    /\ old_weights' = [old_weights EXCEPT ![p] = NoDump]
    /\ vi' = [vi EXCEPT ![p] = 0]
    /\ IF FastEvalEligible(cfg)
       THEN \E o \in CacheOutcomes :
              /\ cache_called' = [cache_called EXCEPT ![p] = TRUE]
              /\ cache_error' = [cache_error EXCEPT ![p] = IF o = "ok" THEN "none" ELSE o]
              /\ IF o = "ok"
                 THEN /\ news_embeds' = [news_embeds EXCEPT ![p] = "cache"]
                      /\ pc' = [pc EXCEPT ![p] = "vbatch"]
                      /\ UNCHANGED exc
                 ELSE IF Caught(o)
                 THEN /\ news_embeds' = [news_embeds EXCEPT ![p] = "None"]
                      /\ pc' = [pc EXCEPT ![p] = "vbatch"]
                      /\ UNCHANGED exc
                 ELSE /\ news_embeds' = [news_embeds EXCEPT ![p] = "unset"]
                      /\ pc' = [pc EXCEPT ![p] = "raised"]
                      /\ exc' = [exc EXCEPT ![p] = o]
       ELSE /\ cache_called' = [cache_called EXCEPT ![p] = FALSE]
            /\ cache_error' = [cache_error EXCEPT ![p] = "none"]
            /\ news_embeds' = [news_embeds EXCEPT ![p] = "None"]
            /\ pc' = [pc EXCEPT ![p] = "vbatch"]
            /\ UNCHANGED exc
    /\ UNCHANGED <<dl, cfg, procs, caller, validations, val_log, eval_result, evals>>
    /\ UNCHANGED trainVars
    /\ UNCHANGED fileVars

\* the impressions of the batch replica p sees at loop index v
RowsOf(p, v) ==
    LoaderRows(v, p, cfg.num_imps, cfg.impression_batch_size, Cardinality(procs))

\* one iteration of the validation loop: the metric rows, the captured
\* weights and the early exit
ValidBatch(p) ==
    /\ pc[p] = "vbatch"
    /\ result_dict' = [result_dict EXCEPT ![p] = StoreRows(@, RowsOf(p, vi[p]), cfg.seed, 1)]
    /\ weight_dict' = [weight_dict EXCEPT ![p] =
                          IF cfg.return_weight
                          THEN CaptureRows(@, RowsOf(p, vi[p]), cfg.seed, 1)
                          ELSE @]
    /\ IF \/ BreakDue(vi[p], cfg.saved_weight_num, cfg.return_weight)
          \/ vi[p] + 1 >= LocalBatches(cfg.num_imps, cfg.impression_batch_size,
                                       Cardinality(procs))
       THEN /\ pc' = [pc EXCEPT ![p] = "gather"]
            /\ UNCHANGED vi
       ELSE /\ vi' = [vi EXCEPT ![p] = @ + 1]
            /\ UNCHANGED pc
    /\ UNCHANGED <<dl, cfg, procs, caller, mode, validations, val_log, exc, evals,
                   news_embeds, cache_called, cache_error, old_weights, eval_result>>
    /\ UNCHANGED trainVars
    /\ UNCHANGED fileVars

\* gather_dict and the average: a collective step of all replicas
GatherAverage ==
    /\ \A p \in procs : pc[p] = "gather"
    /\ result_dict' = [p \in procs |-> GatherDict(result_dict)]
    /\ eval_result' = [p \in procs |-> EvalResult(GatherDict(result_dict))]
    /\ pc' = [p \in procs |-> "save"]
    /\ UNCHANGED <<dl, cfg, procs, caller, mode, validations, val_log, exc, evals,
                   vi, news_embeds, cache_called, cache_error, weight_dict, old_weights>>
    /\ UNCHANGED trainVars
    /\ UNCHANGED fileVars

\* where _valid_epoch returns to
ReturnTo(p) == IF caller[p] = "evaluate" THEN "evaluate_tail" ELSE "validation_tail"

\* the end of _valid_epoch: the weight dump is merged with the file on disk
\* and written back, then the averaged metrics are returned
SaveWeights(p) ==
    /\ pc[p] = "save"
    /\ IF SaveGuard(cfg, p)
       THEN IF file.exists
            THEN /\ old_weights' = [old_weights EXCEPT ![p] = file]
                 /\ file_readers' = file_readers \cup {p}
                 /\ weight_dict' = [weight_dict EXCEPT ![p] = MergeWeights(@, file.data)]
                 /\ file' = [exists |-> TRUE, data |-> MergeWeights(weight_dict[p], file.data)]
                 /\ file_writers' = file_writers \cup {p}
            ELSE /\ file' = [exists |-> TRUE, data |-> weight_dict[p]]
                 /\ file_writers' = file_writers \cup {p}
                 /\ UNCHANGED <<old_weights, file_readers, weight_dict>>
       ELSE UNCHANGED <<old_weights, weight_dict, file, file_readers, file_writers>>
    /\ pc' = [pc EXCEPT ![p] = ReturnTo(p)]
    /\ UNCHANGED <<dl, cfg, procs, caller, mode, validations, val_log, exc, evals,
                   vi, news_embeds, cache_called, cache_error, result_dict, eval_result>>
    /\ UNCHANGED trainVars

\* what self._monitor(log, epoch) can do
MonitorOutcomes == {"ok", "raise"}

\* the rest of _validation after _valid_epoch has returned: val/step is
\* logged, the monitor runs unless suppressed, the model goes back to
\* training mode and control returns to _train_epoch
ValidationReturn(p) ==
    /\ pc[p] = "validation_tail"
    /\ val_log' = [val_log EXCEPT ![p] = Append(@, step[p])]
    /\ \E o \in (IF caller[p] = "loop" THEN MonitorOutcomes ELSE {"ok"}) :
         IF o = "raise"
         THEN /\ pc' = [pc EXCEPT ![p] = "raised"]
              /\ exc' = [exc EXCEPT ![p] = "MonitorError"]
              /\ UNCHANGED <<mode, batch_idx>>
         ELSE /\ mode' = [mode EXCEPT ![p] = "train"]
              /\ UNCHANGED exc
              /\ IF caller[p] = "loop"
                 THEN /\ pc' = [pc EXCEPT ![p] = AfterBatch(batch_idx[p])]
                      /\ batch_idx' = [batch_idx EXCEPT ![p] = @ + 1]
                 ELSE /\ pc' = [pc EXCEPT ![p] = "idle"]
                      /\ UNCHANGED batch_idx
    /\ UNCHANGED <<dl, cfg, procs, caller, validations, evals, epoch, step, fwd_mode,
                   train_metrics, train_log, epoch_log>>
    /\ UNCHANGED passVars
    /\ UNCHANGED fileVars

\* the rest of evaluate(): the keys get the prefix and the log is returned
EvaluateReturn(p) ==
    /\ pc[p] = "evaluate_tail"
    /\ pc' = [pc EXCEPT ![p] = "idle"]
    /\ UNCHANGED <<dl, cfg, procs, caller, mode, validations, val_log, exc, evals>>
    /\ UNCHANGED trainVars
    /\ UNCHANGED passVars
    /\ UNCHANGED fileVars

\* --------------------------------------------------------- specifications
\* a training run of MaxEpochs epochs on one replica
Next ==
    \/ \E p \in procs : TrainEpoch(p)
    \/ \E p \in procs : TrainBatch(p)
    \/ \E p \in procs : TrainEpochEnd(p)
    \/ \E p \in procs : Validation(p)
    \/ \E p \in procs : ValidEpochSetup(p)
    \/ \E p \in procs : ValidBatch(p)
    \/ GatherAverage
    \/ \E p \in procs : SaveWeights(p)
    \/ \E p \in procs : ValidationReturn(p)

Spec == Init /\ [][Next]_vars

\* evaluate() called on NumProcs replicas that share the weight dump file
NextEval ==
    \/ \E p \in procs : Evaluate(p)
    \/ \E p \in procs : ValidEpochSetup(p)
    \/ \E p \in procs : ValidBatch(p)
    \/ GatherAverage
    \/ \E p \in procs : SaveWeights(p)
    \/ \E p \in procs : EvaluateReturn(p)

SpecEval == InitEval /\ [][NextEval]_vars

TypeOK ==
    /\ \A p \in procs : mode[p] \in {"train", "eval"}
    /\ \A p \in procs : pc[p] \in {"idle", "batch", "epoch_end", "validation", "valid_epoch",
                                   "vbatch", "gather", "save", "validation_tail",
                                   "evaluate_tail", "raised"}

\* ----------------------------------------------------- dataset acquisition
\* src/news_recommendation/utils/mind_untils.py.  Sizes are in bytes; the
\* archive at the url has true_size bytes and the stream delivers it in
\* blocks of BlockSize bytes (block_size, scaled down).
BlockSize == 2

\* a call of download_resources(download_url, data_path, name), which calls
\* maybe_download without expected_bytes, or a direct call of maybe_download
\* with or without expected_bytes; then maybe_download up to the test
\* os.path.exists(filepath): an existing file is not downloaded again
DlCallers == {"download_resources", "maybe_download"}
ExpectedOf(kind, size) == IF kind = "download_resources" THEN {-1} ELSE {-1, size}

DlCall ==
    /\ dl.pc = "idle"
    /\ dl.runs < MaxRuns
    /\ \E kind \in DlCallers : \E e \in ExpectedOf(kind, dl.true_size) :
         dl' = [dl EXCEPT !.caller = kind,
                          !.expected = e,
                          !.runs = @ + 1,
                          !.result = "none",
                          !.opened = -1,
                          !.pc = IF dl.disk = -1 THEN "request" ELSE "verify"]
    /\ UNCHANGED trainerVars

\* requests.get(url, stream=True) returns and open(filepath, "wb") creates
\* the file, empty
DlRequest ==
    /\ dl.pc = "request"
    /\ dl' = [dl EXCEPT !.disk = 0, !.pc = "writing"]
    /\ UNCHANGED trainerVars

\* requests.get raises (no network, no such host, connection refused): the
\* exception leaves maybe_download before the file is created
DlRequestFails ==
    /\ dl.pc = "request"
    /\ dl' = [dl EXCEPT !.pc = "idle", !.result = "raised"]
    /\ UNCHANGED trainerVars

\* one iteration of "for data in r.iter_content(block_size): file.write(data)"
DlWrite ==
    /\ dl.pc = "writing"
    /\ IF dl.disk < dl.true_size
       THEN dl' = [dl EXCEPT !.disk = Min(@ + BlockSize, dl.true_size)]
       ELSE dl' = [dl EXCEPT !.pc = "verify"]
    /\ UNCHANGED trainerVars

\* the download is interrupted (the connection breaks, the process is
\* stopped): the exception leaves maybe_download and the part written stays
DlInterrupt ==
    /\ dl.pc = "writing"
    /\ dl.disk < dl.true_size
    /\ dl' = [dl EXCEPT !.pc = "idle", !.result = "raised"]
    /\ UNCHANGED trainerVars

\* "if expected_bytes is not None": whether the size check runs
Verifies(expected) == expected # -1

\* the end of maybe_download: the size check, then the return to the caller
DlVerify ==
    /\ dl.pc = "verify"
    /\ IF Verifies(dl.expected) /\ dl.disk # dl.expected
       THEN dl' = [dl EXCEPT !.disk = -1, !.pc = "idle", !.result = "raised"]
       ELSE IF dl.caller = "download_resources"
       THEN dl' = [dl EXCEPT !.pc = "unzip"]
       ELSE dl' = [dl EXCEPT !.pc = "idle", !.result = "returned"]
    /\ UNCHANGED trainerVars

\* the rest of download_resources: the archive is opened with
\* zipfile.ZipFile, extracted and removed; an archive cut short has no
\* end-of-central-directory record, ZipFile raises and the file stays
DlUnzip ==
    /\ dl.pc = "unzip"
    /\ IF dl.disk = dl.true_size
       THEN dl' = [dl EXCEPT !.opened = dl.disk, !.disk = -1, !.pc = "idle",
                             !.result = "returned"]
       ELSE dl' = [dl EXCEPT !.opened = dl.disk, !.pc = "idle", !.result = "raised"]
    /\ UNCHANGED trainerVars

\* archives of 1..MaxBytes bytes and no file on disk: a file left in part
\* is the result of an interrupted run
InitDownload ==
    /\ \E c \in EvalConfigs : InitState({0}, c, NoDump) /\ c.seed = 0 /\ c.num_imps = 1
          /\ c.impression_batch_size = 1 /\ c.saved_weight_num = 0
          /\ c.valid_method = "fast_evaluation" /\ ~c.return_weight
          /\ ~c.with_entropy /\ c.topic_variant = "base"
    /\ \E size \in 1..MaxBytes : dl = DlState(size, -1)

NextDownload ==
    \/ DlCall
    \/ DlRequest
    \/ DlRequestFails
    \/ DlWrite
    \/ DlInterrupt
    \/ DlVerify
    \/ DlUnzip

SpecDownload == InitDownload /\ [][NextDownload]_vars

\* ------------------------------------------------------------- properties
\* the calls of _validation made for epoch e, in order
EpochCalls(p, e) == SelectSeq(validations[p], LAMBDA v : v[1] = e)
\* epoch e has reached its epoch-end validation
EpochEnded(p, e) == \E i \in DOMAIN validations[p] : validations[p][i] = <<e, cfg.len_epoch, FALSE>>
\* the scenario valid_interval = 0.5 and len_epoch = 10
Scenario == cfg.len_epoch = 10 /\ cfg.valid_interval = <<1, 2>>

\* C1 as stated: in the scenario the only batch index that triggers an
\* interleaved validation is 4, so an epoch makes two calls of _validation:
\* the one at batch index 4 and the one at the epoch end.
C1_OnlyBatch4 ==
    Scenario =>
        \A p \in procs :
            /\ \A i \in DOMAIN validations[p] :
                  validations[p][i][3] => validations[p][i][2] = 4
            /\ \A e \in 1..MaxEpochs :
                  EpochEnded(p, e) => EpochCalls(p, e) = <<<<e, 4, TRUE>>, <<e, 10, FALSE>>>>

\* C1 amended: in the scenario the interleaved validations are triggered at
\* batch indices 4 and 9 and at no other index, and an epoch that reaches its
\* end has made exactly three calls: at 4, at 9 and the epoch-end one.
C1_Batch4And9 ==
    Scenario =>
        \A p \in procs :
            /\ \A i \in DOMAIN validations[p] :
                  validations[p][i][3] => validations[p][i][2] \in {4, 9}
            /\ \A e \in 1..MaxEpochs :
                  EpochEnded(p, e) =>
                      EpochCalls(p, e) = <<<<e, 4, TRUE>>, <<e, 9, TRUE>>, <<e, 10, FALSE>>>>

\* an epoch of the scenario has run to its end and returned
C1_Witness ==
    /\ Scenario
    /\ \E p \in procs : pc[p] = "idle" /\ epoch[p] >= 1 /\ Len(EpochCalls(p, 1)) = 3

\* control has left a call of _validation, by return or by exception
LeftValidation(p) ==
    /\ caller[p] \in {"loop", "epoch_end"}
    /\ Len(validations[p]) > 0
    /\ pc[p] \in {"batch", "epoch_end", "idle", "raised"}

\* C2: whenever control has left _validation, by a normal return or by an
\* exception of _valid_epoch or _monitor, the model is in training mode.
C2_TrainModeOnExit ==
    \A p \in procs : LeftValidation(p) => mode[p] = "train"

\* C3: when get_news_embeds raises KeyError or RuntimeError the pass does not
\* abort: news_embeds is None and the validation goes on.
C3_CacheErrorFallsBack ==
    \A p \in procs :
        cache_error[p] \in {"KeyError", "RuntimeError"} =>
            pc[p] # "raised" /\ news_embeds[p] = "None"

\* C4: with return_weight, no field of the dump captured by a pass holds more
\* than saved_weight_num entries (before the merge with the file on disk).
C4_CaptureWithinCap ==
    \A p \in procs :
        (cfg.return_weight /\ pc[p] \in {"vbatch", "gather", "save"}) =>
            \A f \in DOMAIN weight_dict[p] : Len(weight_dict[p][f]) <= cfg.saved_weight_num

\* replica p executes the end of _valid_epoch and writes over an existing dump
MergeStep(p) ==
    /\ pc[p] = "save"
    /\ pc'[p] # "save"
    /\ file.exists
    /\ file' # file

\* C5 as stated: the file written holds, for every field, the prior dump's
\* sequence followed by the newly captured sequence.
C5_OldThenNew ==
    [][\A p \in procs :
          MergeStep(p) =>
              \A f \in DOMAIN file.data : file'.data[f] = file.data[f] \o weight_dict[p][f]]_vars

\* C5 amended: the file written holds exactly the fields captured by the
\* pass and, for each of them, the newly captured sequence followed by the
\* prior dump's sequence, every entry of both kept.
C5_NewThenOld ==
    [][\A p \in procs :
          MergeStep(p) =>
              /\ DOMAIN file'.data = DOMAIN weight_dict[p]
              /\ \A f \in DOMAIN weight_dict[p] :
                    /\ file'.data[f] = weight_dict[p][f] \o file.data[f]
                    /\ Len(file'.data[f]) = Len(weight_dict[p][f]) + Len(file.data[f])]_vars

\* a pass has merged its capture with a dump it found on disk
C5_Witness ==
    \E p \in procs :
        /\ pc[p] = "evaluate_tail"
        /\ old_weights[p].exists
        /\ file.exists
        /\ Len(file.data["label"]) > Len(old_weights[p].data["label"])
        /\ Len(old_weights[p].data["label"]) > 0

\* C6: only the main process (rank 0) ever reads or writes the dump file.
C6_OnlyMainTouchesFile ==
    /\ file_readers \subseteq {0}
    /\ file_writers \subseteq {0}

\* several replicas have gone through the end of a pass with return_weight,
\* and the file was read and written
C6_Witness ==
    /\ Cardinality(procs) > 1
    /\ cfg.return_weight
    /\ \A p \in procs : pc[p] = "evaluate_tail"
    /\ file_readers = {0}
    /\ file_writers = {0}

\* the impressions replica p has processed in the current pass
Processed(p) ==
    LET last == IF pc[p] = "vbatch" THEN vi[p] - 1 ELSE vi[p]
    IN UNION {{RowsOf(p, v)[i] : i \in DOMAIN RowsOf(p, v)} : v \in 0..last}

\* C7: the result table has a row for exactly the impressions processed, and
\* the value of each metric in the row of impression idx is 100 times the
\* metric of the unpadded labels and scores of idx.
C7_RowsFromUnpadded ==
    \A p \in procs :
        /\ pc[p] \in {"vbatch", "gather"} => DOMAIN result_dict[p] = Processed(p)
        /\ pc[p] \in {"vbatch", "gather", "save", "evaluate_tail"} =>
              \A idx \in DOMAIN result_dict[p] : \A m \in MetricFuncs :
                  result_dict[p][idx][m] =
                      100 * ApplyMetric(m, TrueLabel(cfg.seed, idx), TrueScore(cfg.seed, idx))

\* a pass has stored a row whose value would differ had padding been read
C7_Witness ==
    \E p \in procs :
        /\ pc[p] = "gather"
        /\ \E idx \in DOMAIN result_dict[p] :
              /\ result_dict[p][idx]["hit_at_1"] = 100
              /\ ApplyMetric("hit_at_1", BatchLabel(cfg.seed, idx), BatchPred(cfg.seed, idx)) = 0

\* the positions of a pass after the choice of the evaluation strategy
InPass(p) == pc[p] \in {"vbatch", "gather", "save", "evaluate_tail", "validation_tail"}

\* C8: get_news_embeds is called only under valid_method = fast_evaluation,
\* no return_weight, no with_entropy and a topic_variant other than
\* variational_topic; in every other configuration the pass runs with
\* news_embeds = None and without the call.
C8_CacheOnlyWhenEligible ==
    \A p \in procs :
        LET ok == /\ cfg.valid_method = "fast_evaluation"
                  /\ cfg.return_weight = FALSE
                  /\ cfg.with_entropy = FALSE
                  /\ cfg.topic_variant # "variational_topic"
        IN /\ cache_called[p] => ok
           /\ (InPass(p) /\ ~ok) => (news_embeds[p] = "None" /\ ~cache_called[p])

\* a pass runs on the cache built by get_news_embeds
C8_Witness ==
    \E p \in procs : pc[p] = "vbatch" /\ cache_called[p] /\ news_embeds[p] = "cache"

RECURSIVE SumLoss(_, _)
SumLoss(e, n) == IF n = 0 THEN 0 ELSE LossOf(e, n - 1) + SumLoss(e, n - 1)

\* C9: the loss in the log _train_epoch returns is the average over all
\* batches of the epoch: the sum of the len_epoch losses over len_epoch.
C9_LogAveragesWholeEpoch ==
    \A p \in procs :
        (caller[p] = "epoch_end" /\ pc[p] \in {"validation", "valid_epoch", "validation_tail"}) =>
            epoch_log[p]["loss"] = <<SumLoss(epoch[p], cfg.len_epoch), cfg.len_epoch>>

\* C10 as stated: every val/step logged is greater than the one before it.
C10_StrictlyIncreasing ==
    \A p \in procs : \A i \in 1..(Len(val_log[p]) - 1) : val_log[p][i] < val_log[p][i + 1]

\* validation i was the interleaved one at the last batch of its epoch
AtLastBatch(p, i) == validations[p][i][3] /\ validations[p][i][2] = cfg.len_epoch - 1

\* C10 amended: the val/step values never decrease; a validation logs the
\* same step as the one before it exactly when that one was the interleaved
\* validation at the last batch index of the epoch (the epoch-end validation
\* follows it), and a greater step in every other case.
C10_NonDecreasing ==
    \A p \in procs : \A i \in 1..(Len(val_log[p]) - 1) :
        /\ val_log[p][i] <= val_log[p][i + 1]
        /\ val_log[p][i] = val_log[p][i + 1] <=> AtLastBatch(p, i)
        /\ AtLastBatch(p, i) => validations[p][i + 1] = <<validations[p][i][1], cfg.len_epoch, FALSE>>

\* a run has logged an equal pair and a later, greater step in the next epoch
C10_Witness ==
    \E p \in procs : \E i \in 1..(Len(val_log[p]) - 2) :
        /\ val_log[p][i] = val_log[p][i + 1]
        /\ val_log[p][i + 1] < val_log[p][i + 2]
        /\ validations[p][i + 2][1] > validations[p][i][1]

\* C11: an archive whose size differs from the expected byte count (the
\* size of the archive at the url) is deleted and an error is raised by the
\* size check, so download_resources reaches its unpacking step only with a
\* complete archive and never hands another one to ZipFile, also when the
\* file was left on disk by an earlier interrupted download.
C11_OnlyVerifiedArchiveUnpacked ==
    /\ (dl.caller = "download_resources" /\ dl.pc = "unzip") => dl.disk = dl.true_size
    /\ dl.opened \in {-1, dl.true_size}
    /\ (dl.caller = "download_resources" /\ dl.result = "raised" /\ dl.opened # -1) =>
           dl.disk = -1

\* C12: every training forward pass of _train_epoch runs with the model in
\* training mode: the model is in training mode whenever the loop is about to
\* process a batch, and no forward pass has run in evaluation mode, whatever
\* log steps, topic diagnostics and interleaved validations came before.
C12_ForwardInTrainMode ==
    \A p \in procs :
        /\ pc[p] = "batch" => mode[p] = "train"
        /\ fwd_mode[p] \in {"none", "train"}

\* a forward pass has run right after a batch that had both the topic
\* diagnostics and an interleaved validation
C12_Witness ==
    \E p \in procs : \E b \in 1..(cfg.len_epoch - 1) :
        /\ cfg.log_kl_div
        /\ LogDue(b - 1, cfg.log_step)
        /\ step[p] = StepOf(epoch[p], cfg.len_epoch, b)
        /\ \E i \in DOMAIN validations[p] : validations[p][i] = <<epoch[p], b - 1, TRUE>>
        /\ Len(val_log[p]) > 0
        /\ fwd_mode[p] = "train"

\* C13 as stated: the handler catches only RuntimeError: a RuntimeError of
\* get_news_embeds leads to slow evaluation, a KeyError propagates out of
\* _valid_epoch.
C13_CatchesOnlyRuntimeError ==
    \A p \in procs :
        /\ cache_error[p] = "RuntimeError" => (pc[p] # "raised" /\ news_embeds[p] = "None")
        /\ cache_error[p] = "KeyError" => (pc[p] = "raised" /\ exc[p] = "KeyError")

\* C13 amended: the handler catches only KeyError: a KeyError of
\* get_news_embeds is caught and the pass goes on with news_embeds = None,
\* a RuntimeError is not caught and propagates out of _valid_epoch.
C13_CatchesOnlyKeyError ==
    \A p \in procs :
        /\ cache_error[p] = "KeyError" => (pc[p] # "raised" /\ exc[p] = "none" /\ news_embeds[p] = "None")
        /\ cache_error[p] = "RuntimeError" => (pc[p] = "raised" /\ exc[p] = "RuntimeError")

\* one replica runs the slow evaluation after a KeyError while another has
\* left _valid_epoch with a RuntimeError
C13_Witness ==
    \E p, q \in procs :
        /\ cache_error[p] = "KeyError" /\ pc[p] = "gather" /\ news_embeds[p] = "None"
        /\ cache_error[q] = "RuntimeError" /\ pc[q] = "raised"

\* the number of batches a pass of a replica goes through according to C14
ExpectedBatches ==
    LET nb == LocalBatches(cfg.num_imps, cfg.impression_batch_size, Cardinality(procs))
    IN IF cfg.return_weight THEN Min(nb, cfg.saved_weight_num + 1) ELSE nb
\* the impressions of those batches on replica p
ExpectedRows(p) ==
    UNION {{RowsOf(p, v)[i] : i \in DOMAIN RowsOf(p, v)} : v \in 0..(ExpectedBatches - 1)}

\* C14: with return_weight a pass processes exactly
\* min(number of batches, saved_weight_num + 1) batches and the result table
\* has rows for the impressions of those batches only; without return_weight
\* every batch is processed and every impression index gets a row.
C14_EarlyExitEndsMetrics ==
    \A p \in procs :
        /\ pc[p] = "vbatch" => vi[p] < ExpectedBatches
        /\ pc[p] = "gather" =>
              /\ vi[p] + 1 = ExpectedBatches
              /\ DOMAIN result_dict[p] = ExpectedRows(p)
        /\ pc[p] \in {"save", "evaluate_tail"} =>
              /\ DOMAIN result_dict[p] = UNION {ExpectedRows(q) : q \in procs}
              /\ ~cfg.return_weight => DOMAIN result_dict[p] = 0..(cfg.num_imps - 1)

\* a pass with return_weight has left the loop before the last batch and
\* its table lacks impressions of the validation set
C14_Witness ==
    \E p \in procs :
        /\ cfg.return_weight
        /\ pc[p] = "evaluate_tail"
        /\ cfg.saved_weight_num + 1 <
              LocalBatches(cfg.num_imps, cfg.impression_batch_size, Cardinality(procs))
        /\ DOMAIN result_dict[p] # 0..(cfg.num_imps - 1)

====
